---- MODULE Spec2Model ----
(***************************************************************************)
(* Model of app.py: the launch scheduler (start_profile_endpoint,          *)
(* start_profile_task, start_profile_sync), the admission semaphore and    *)
(* the registry running_profiles (Spec, FairSpec); the handler of /inject  *)
(* next to the launch scheduler (InjectSpec); the injection engine         *)
(* _inject_into_all_pages (EngineSpec); the polling loop of                *)
(* _get_ws_from_port (DiscoverySpec).                                      *)
(*                                                                         *)
(* Python values are modelled as follows.                                  *)
(*   - a dict is a function from its keys (strings) to values; a key that  *)
(*     is not in the dict is not in the DOMAIN;                            *)
(*   - a str that the code parses (remote_debugging_address) is a sequence *)
(*     of one-character strings, so that split and int act on characters;  *)
(*   - time.time() is the opaque token "ts";                               *)
(*   - str(e) of a caught exception is the opaque token "str(e)".          *)
(* The event loop is single threaded: everything a coroutine does between  *)
(* two awaits is one action, and scheduled task steps run in the order in  *)
(* which they were scheduled.  Request handlers and worker threads are not *)
(* ordered by that queue.  start_profile_sync runs on a worker thread on   *)
(* variables local to the call; what it got from the profile manager and   *)
(* from discovery becomes visible when the task merges the result.         *)
(***************************************************************************)
EXTENDS Integers, Sequences, FiniteSets, TLC

VARIABLES
    running_profiles,   \* app.py:35  profile_id -> info dict
    semaphore,          \* app.py:34  value of the asyncio.Semaphore
    waiters,            \* app.py:114 tasks blocked in semaphore.acquire(), FIFO
    tasks,              \* app.py:188 the launch tasks created so far
    ready,              \* tasks whose next step the event loop has scheduled, FIFO
    response,           \* app.py:187,189 last JSON response of /start_profile
    inject,             \* app.py:221-261 the /inject request being handled
    engine,             \* app.py:127-175 a call of _inject_into_all_pages
    discovery           \* app.py:60-79   a call of _get_ws_from_port

vars == <<running_profiles, semaphore, waiters, tasks, ready, response,
          inject, engine, discovery>>

\* What the launch scheduler never touches.
others == <<inject, engine, discovery>>

MAX_CONCURRENT == 3

\* Bound: number of launch tasks created in one behaviour.
MaxTasks == 4

Profiles == {"p1", "p2"}

-----------------------------------------------------------------------------
(* Python dict helpers *)

EmptyDict == [k \in {} |-> "none"]

Put(d, k, v) == [x \in (DOMAIN d) \cup {k} |-> IF x = k THEN v ELSE d[x]]

\* dict.update(other)
Update(d, other) ==
    [x \in (DOMAIN d) \cup (DOMAIN other) |->
        IF x \in DOMAIN other THEN other[x] ELSE d[x]]

-----------------------------------------------------------------------------
(* Strings that the code parses *)

Digits == {"0", "1", "2", "3", "4", "5", "6", "7", "8", "9"}

DigitVal ==
    [c \in Digits |->
        CASE c = "0" -> 0 [] c = "1" -> 1 [] c = "2" -> 2 [] c = "3" -> 3
          [] c = "4" -> 4 [] c = "5" -> 5 [] c = "6" -> 6 [] c = "7" -> 7
          [] c = "8" -> 8 [] c = "9" -> 9]

\* ":" in s
HasColon(s) == \E i \in 1..Len(s) : s[i] = ":"

FirstColon(s) ==
    CHOOSE i \in 1..Len(s) : s[i] = ":" /\ \A j \in 1..(i - 1) : s[j] # ":"

\* s.split(":", 1) for a string that holds a colon
SplitHost(s) == SubSeq(s, 1, FirstColon(s) - 1)
SplitPort(s) == SubSeq(s, FirstColon(s) + 1, Len(s))

\* int(s) succeeds (over the alphabet of the model: digits, letters, ":")
IntParses(s) == Len(s) > 0 /\ \A i \in 1..Len(s) : s[i] \in Digits

RECURSIVE IntOf(_)
IntOf(s) ==
    IF Len(s) = 0 THEN 0
    ELSE 10 * IntOf(SubSeq(s, 1, Len(s) - 1)) + DigitVal[s[Len(s)]]

\* the value stored under debug_port: an int, or the unparsed str
PortInt(n) == [isint |-> TRUE, int |-> n, str |-> <<>>]
PortStr(s) == [isint |-> FALSE, int |-> 0, str |-> s]

-----------------------------------------------------------------------------
(* What the profile manager can answer to _call_gpm_start *)

RDA == "remote_debugging_address"

\* resp.get("data"): missing/None/falsy scalar, a truthy non-dict, or an object
DataMissing == [kind |-> "missing", keys |-> {}, rda |-> <<>>]
DataScalar == [kind |-> "scalar", keys |-> {}, rda |-> <<>>]
DataObject(keys, rda) == [kind |-> "object", keys |-> keys, rda |-> rda]

RdaInputs ==
    { <<"h", ":", "9">>,      \* host:port
      <<"h", ":", "x">> }     \* host:port, port not a number

DataInputs ==
    {DataMissing, DataScalar, DataObject({}, <<>>), DataObject({"profile"}, <<>>)}
    \cup {DataObject({RDA}, s) : s \in RdaInputs}

\* _call_gpm_start raises (requests exception, raise_for_status, bad JSON)
GpmRaises == [raises |-> TRUE, isdict |-> FALSE, data |-> DataMissing]
\* it returns JSON that is not an object
GpmNotDict == [raises |-> FALSE, isdict |-> FALSE, data |-> DataMissing]
\* it returns a JSON object
GpmDict(d) == [raises |-> FALSE, isdict |-> TRUE, data |-> d]

GpmOutcomes == {GpmRaises, GpmNotDict} \cup {GpmDict(d) : d \in DataInputs}

\* what _get_ws_from_port can return: None or a URL
WsInputs == {"None", "ws://h:9/devtools"}

\* Python truthiness of data
Truthy(data) ==
    \/ data.kind = "scalar"
    \/ data.kind = "object" /\ data.keys # {}

-----------------------------------------------------------------------------
(* start_profile_sync: runs on a worker thread, on its local info *)

STARTED_NO_DEBUG == "started (no debug info)"

Terminal == {"started", STARTED_NO_DEBUG, "error"}

\* app.py:83
InitialInfo(profile_id) ==
    [profile_id |-> profile_id, status |-> "starting", started_at |-> "ts"]

\* app.py:86  data = resp.get("data") if isinstance(resp, dict) else None
DataOf(resp) == IF resp.isdict THEN resp.data ELSE DataMissing

\* app.py:93-94  rda = data.get(...); if rda and ":" in rda
HasDebugAddress(data) ==
    /\ RDA \in data.keys
    /\ Len(data.rda) > 0
    /\ HasColon(data.rda)

\* app.py:97-100  try: int(port) except: port
DebugPort(port) == IF IntParses(port) THEN PortInt(IntOf(port)) ELSE PortStr(port)

\* Mutant of Failed: the except branch records the message and leaves status.
FailedKeepsStatus(info, message) == Put(info, "error", message)

\* app.py:108-109  the except branch: info is kept, status and error are set
Failed(info, message) == Put(Put(info, "status", "error"), "error", message)

\* app.py:95-101  info after the debug address was parsed
WithDebugAddress(info, rda) ==
    Put(Put(Put(info, "debug_host", SplitHost(rda)),
            "debug_port", DebugPort(SplitPort(rda))),
        "status", "started")

\* app.py:102  _get_ws_from_port is called: the response carries a debug
\* address and int(port) did not raise
CallsDiscovery(resp) ==
    /\ ~resp.raises
    /\ DataOf(resp).kind = "object"
    /\ HasDebugAddress(DataOf(resp))
    /\ IntParses(SplitPort(DataOf(resp).rda))

\* what _get_ws_from_port returns in a launch that got resp ("None" also
\* stands for "not called")
DiscoveryResults(resp) == IF CallsDiscovery(resp) THEN WsInputs ELSE {"None"}

\* app.py:82-110  the dict start_profile_sync returns when _call_gpm_start
\* gives resp and _get_ws_from_port, if it is called, gives ws
start_profile_sync(profile_id, resp, ws) ==
    LET info == InitialInfo(profile_id)
        data == DataOf(resp)
    IN  IF resp.raises
        THEN Failed(info, "str(e)")
        ELSE IF ~Truthy(data)
        THEN Failed(info, "Unexpected response")
        ELSE IF data.kind # "object"
        THEN \* data.get raises AttributeError
             Failed(info, "str(e)")
        ELSE IF HasDebugAddress(data)
        THEN IF CallsDiscovery(resp)
             THEN Put(WithDebugAddress(info, data.rda), "websocket", ws)
             ELSE \* int(port) on line 102 raises ValueError
                  Failed(WithDebugAddress(info, data.rda),
                         "str(e)")
        ELSE Put(Put(info, "status", STARTED_NO_DEBUG), "raw_response", data)

-----------------------------------------------------------------------------
(* The launch tasks *)

\* app.py:113-123; pc is the position of the task:
\*   created   create_task was called, the coroutine has not run yet
\*   waiting   blocked in semaphore.acquire()
\*   woken     a release handed it the slot; acquire() has not returned yet
\*   running   in the gate, awaiting run_in_executor: the worker thread
\*             runs start_profile_sync on its own local info
\*   returned  start_profile_sync returned; the task has not resumed yet
\*   done      the task merged the result and released the semaphore; its
\*             frame is gone, and with it profile_id
NewTask(profile_id) == [pid |-> profile_id, pc |-> "created"]

NoProfile == "-"

DoneTask == [pid |-> NoProfile, pc |-> "done"]

TaskIds == 1..Len(tasks)

\* the tasks that hold a slot of the semaphore
InGate == {t \in TaskIds : tasks[t].pc \in {"woken", "running", "returned"}}

\* app.py:115-119
QueuedRecord(profile_id) ==
    [status |-> "queued", profile_id |-> profile_id, started_at |-> "ts"]

\* Mutant of locked: the gate never makes a task wait.
lockedNever == FALSE

\* asyncio.Semaphore.locked(): no free slot (a release hands a slot straight
\* to the first waiter, so tasks wait only while the value is 0)
locked == semaphore = 0

\* Mutant of AlreadyActive: only a finished launch counts as active.
AlreadyActiveWhenStarted(profile_id) ==
    /\ profile_id \in DOMAIN running_profiles
    /\ running_profiles[profile_id].status \in {"started", STARTED_NO_DEBUG}

\* app.py:186  the "already running / queued" test of /start_profile
AlreadyActive(profile_id) ==
    /\ profile_id \in DOMAIN running_profiles
    /\ running_profiles[profile_id].status # "error"

\* No /inject request has been handled yet.
InjectIdle == [pc |-> "idle"]

\* No call of _inject_into_all_pages is in progress.
EngineIdle == [pc |-> "idle"]

\* No call of _get_ws_from_port is in progress.
DiscoveryIdle == [pc |-> "idle"]

Init ==
    /\ running_profiles = [p \in {} |-> EmptyDict]
    /\ semaphore = MAX_CONCURRENT
    /\ waiters = <<>>
    /\ tasks = <<>>
    /\ ready = <<>>
    /\ response = [ok |-> FALSE, profile_id |-> "none"]
    /\ inject = InjectIdle
    /\ engine = EngineIdle
    /\ discovery = DiscoveryIdle

\* app.py:184-189
start_profile_endpoint(profile_id) ==
    IF AlreadyActive(profile_id)
    THEN /\ response' = [ok |-> FALSE, profile_id |-> profile_id]
         /\ UNCHANGED <<running_profiles, semaphore, waiters, tasks, ready>>
         /\ UNCHANGED others
    ELSE /\ Len(tasks) < MaxTasks
         /\ tasks' = Append(tasks, NewTask(profile_id))
         /\ ready' = Append(ready, Len(tasks) + 1)
         /\ response' = [ok |-> TRUE, profile_id |-> profile_id]
         /\ UNCHANGED <<running_profiles, semaphore, waiters>>
         /\ UNCHANGED others

\* The event loop runs the callbacks of its ready queue in order.
IsNext(t, pc) ==
    /\ ready # <<>>
    /\ t = Head(ready)
    /\ tasks[t].pc = pc

\* app.py:115-121  inside the gate: the task writes the queued record and
\* hands start_profile_sync to the executor
EnterGate(t) ==
    /\ running_profiles' =
           Put(running_profiles, tasks[t].pid, QueuedRecord(tasks[t].pid))
    /\ tasks' = [tasks EXCEPT ![t].pc = "running"]

\* app.py:113-114  first run of the coroutine
TaskBegin(t) ==
    /\ IsNext(t, "created")
    /\ ready' = Tail(ready)
    /\ IF locked
       THEN /\ waiters' = Append(waiters, t)
            /\ tasks' = [tasks EXCEPT ![t].pc = "waiting"]
            /\ UNCHANGED <<running_profiles, semaphore>>
       ELSE /\ semaphore' = semaphore - 1
            /\ EnterGate(t)
            /\ UNCHANGED waiters
    /\ UNCHANGED <<response, others>>

\* app.py:114  a woken task returns from semaphore.acquire()
TaskWoken(t) ==
    /\ IsNext(t, "woken")
    /\ ready' = Tail(ready)
    /\ EnterGate(t)
    /\ UNCHANGED <<semaphore, waiters, response, others>>

\* app.py:121  the worker thread returns from start_profile_sync
ThreadReturns(t) ==
    /\ t \in TaskIds
    /\ tasks[t].pc = "running"
    /\ tasks' = [tasks EXCEPT ![t].pc = "returned"]
    /\ ready' = Append(ready, t)
    /\ UNCHANGED <<running_profiles, semaphore, waiters, response, others>>

\* Mutant of Release: a launch that ended in error keeps its slot.
ReleaseUnlessError(value, result) ==
    IF result.status = "error" THEN value ELSE value + 1

\* app.py:114  leaving "async with semaphore"
Release(value, result) == value + 1

\* app.py:122-123  the task resumes with the result that start_profile_sync
\* computed from resp and ws, merges it into the record the registry holds
\* now, and leaves the gate; the released slot goes to the first waiter
TaskFinish(t, resp, ws) ==
    /\ IsNext(t, "returned")
    /\ LET result == start_profile_sync(tasks[t].pid, resp, ws)
       IN  /\ running_profiles' =
                  Put(running_profiles, tasks[t].pid,
                      Update(running_profiles[tasks[t].pid], result))
           /\ IF waiters = <<>>
              THEN /\ semaphore' = Release(semaphore, result)
                   /\ tasks' = [tasks EXCEPT ![t] = DoneTask]
                   /\ ready' = Tail(ready)
                   /\ UNCHANGED waiters
              ELSE /\ semaphore' = Release(semaphore, result) - 1
                   /\ tasks' = [tasks EXCEPT ![t] = DoneTask,
                                             ![Head(waiters)].pc = "woken"]
                   /\ ready' = Append(Tail(ready), Head(waiters))
                   /\ waiters' = Tail(waiters)
    /\ UNCHANGED <<response, others>>

Next ==
    \/ \E p \in Profiles : start_profile_endpoint(p)
    \/ \E t \in TaskIds : TaskBegin(t)
    \/ \E t \in TaskIds : TaskWoken(t)
    \/ \E t \in TaskIds : ThreadReturns(t)
    \/ \E t \in TaskIds : \E resp \in GpmOutcomes : \E ws \in DiscoveryResults(resp) :
           TaskFinish(t, resp, ws)

Spec == Init /\ [][Next]_vars

\* Whatever the event loop runs as one callback of its ready queue.
LoopStep ==
    \E t \in TaskIds :
        \/ TaskBegin(t)
        \/ TaskWoken(t)
        \/ \E resp \in GpmOutcomes : \E ws \in DiscoveryResults(resp) :
               TaskFinish(t, resp, ws)

\* Whatever a worker thread does that the event loop sees.
WorkerStep == \E t \in TaskIds : ThreadReturns(t)

\* The event loop keeps running its ready queue, and the calls made by the
\* worker threads return or raise, so that start_profile_sync returns.
Fairness ==
    /\ WF_vars(LoopStep)
    /\ WF_vars(WorkerStep)

\* The launches of one profile: every request after the first is a repeated
\* request for a profile that is queued, running or finished.
OneProfile == {"p1"}

FairNext ==
    \/ \E p \in OneProfile : start_profile_endpoint(p)
    \/ \E t \in TaskIds : TaskBegin(t)
    \/ \E t \in TaskIds : TaskWoken(t)
    \/ \E t \in TaskIds : ThreadReturns(t)
    \/ \E t \in TaskIds : \E resp \in GpmOutcomes : \E ws \in DiscoveryResults(resp) :
           TaskFinish(t, resp, ws)

FairSpec == Init /\ [][FairNext]_vars /\ Fairness

-----------------------------------------------------------------------------
(* POST /inject, app.py:221-261.  The handler runs on the event loop; one   *)
(* request is followed from its arrival to its response.                    *)

Whitespace == {" "}

\* str.strip(): the string without its leading and trailing whitespace
RECURSIVE Strip(_)
Strip(s) ==
    IF Len(s) = 0 THEN s
    ELSE IF Head(s) \in Whitespace THEN Strip(Tail(s))
    ELSE IF s[Len(s)] \in Whitespace THEN Strip(SubSeq(s, 1, Len(s) - 1))
    ELSE s

\* Form values of script_url and inline_js
ScriptInputs == {<<>>, <<" ">>, <<" ", "j">>}

\* app.py:238-239  x.strip() if x and x.strip() else None; None is <<>>
Final(x) == IF Len(x) > 0 /\ Len(Strip(x)) > 0 THEN Strip(x) ELSE <<>>

\* The file script.js next to app.py: os.path.isfile and open/read
FileStates == {"absent", "readable", "unreadable"}

\* app.py:242-251 consults the file only when both form values are empty
FilesFor(script_url, inline_js) ==
    IF Final(script_url) = <<>> /\ Final(inline_js) = <<>>
    THEN FileStates ELSE {"unused"}

\* Python truthiness of the value stored under debug_port
PortTruthy(port) == IF port.isint THEN port.int # 0 ELSE Len(port.str) > 0

\* Mutant of MissingDebugAddress: only the missing record is rejected.
MissingRecord(info) == DOMAIN info = {}

\* app.py:228  not info or not info.get("debug_host") or
\*             not info.get("debug_port")
MissingDebugAddress(info) ==
    \/ DOMAIN info = {}
    \/ "debug_host" \notin DOMAIN info
    \/ Len(info.debug_host) = 0
    \/ "debug_port" \notin DOMAIN info
    \/ ~PortTruthy(info.debug_port)

\* app.py:231-232  info["debug_host"] or info["debug_port"] raises KeyError,
\* int(info["debug_port"]) raises ValueError
AddressRaises(info) ==
    \/ "debug_host" \notin DOMAIN info
    \/ "debug_port" \notin DOMAIN info
    \/ ~info.debug_port.isint /\ ~IntParses(info.debug_port.str)

\* app.py:232  port = int(info["debug_port"])
PortOf(info) ==
    IF info.debug_port.isint THEN info.debug_port.int
    ELSE IntOf(info.debug_port.str)

\* app.py:233  info.get("websocket") is truthy
HasWebsocket(info) ==
    "websocket" \in DOMAIN info /\ info.websocket # "None"

\* app.py:236  f"http://{host}:{port}"
HttpAddress(host, port) == <<"http://", host, ":", port>>

\* app.py:227  running_profiles.get(profile_id); None is the empty dict
InfoOf(profile_id) ==
    IF profile_id \in DOMAIN running_profiles
    THEN running_profiles[profile_id] ELSE EmptyDict

\* The request as the handler holds it after app.py:239.
Request(profile_id, script_url, inline_js, file) ==
    [pc |-> "begin", profile_id |-> profile_id,
     final_script_url |-> Final(script_url),
     final_inline_js |-> Final(inline_js),
     file |-> file, ws |-> <<>>,
     queried |-> FALSE, connected |-> FALSE,
     kind |-> "none", ok |-> FALSE, message |-> "none"]

\* return JSONResponse({"ok": ok, ...})
Responded(req, ok, message) ==
    [req EXCEPT !.pc = "done", !.kind = "json", !.ok = ok,
                !.message = message]

\* An exception leaves the handler: the framework answers for it.
Unhandled(req) == [req EXCEPT !.pc = "done", !.kind = "unhandled"]

\* app.py:238-258  from the payload resolution to the await of the engine
ResolvePayload(req) ==
    IF req.final_inline_js = <<>> /\ req.final_script_url = <<>>
    THEN IF req.file = "absent" THEN Responded(req, FALSE, "no payload")
         ELSE IF req.file = "unreadable"
         THEN Responded(req, FALSE, "script.js unreadable")
         ELSE [req EXCEPT !.pc = "injecting", !.connected = TRUE,
                          !.final_inline_js = <<"f">>]
    ELSE [req EXCEPT !.pc = "injecting", !.connected = TRUE]

\* The handler of /inject is inside the call of _get_ws_from_port of
\* app.py:233, made on the thread of the event loop.
BlockedInDiscovery == inject.pc = "discovering"

\* The event loop is free to run a handler or a task step.
LoopFree == ~BlockedInDiscovery

\* app.py:227-258  the handler up to its first blocking call or response
inject_endpoint(profile_id, script_url, inline_js, file) ==
    /\ inject.pc \in {"idle", "done"}
    /\ LET info == InfoOf(profile_id)
           req == Request(profile_id, script_url, inline_js, file)
       IN  inject' =
             IF MissingDebugAddress(info)
             THEN Responded(req, FALSE, "not started")
             ELSE IF AddressRaises(info) THEN Unhandled(req)
             ELSE IF HasWebsocket(info)
             THEN ResolvePayload([req EXCEPT !.ws = <<info.websocket>>])
             ELSE [req EXCEPT !.pc = "discovering", !.queried = TRUE,
                              !.ws = HttpAddress(info.debug_host, PortOf(info))]
    /\ UNCHANGED <<running_profiles, semaphore, waiters, tasks, ready,
                   response, engine, discovery>>

\* app.py:233-258  _get_ws_from_port returns ws (a URL or None) to the
\* handler, which goes on to the payload
InjectDiscovered(ws) ==
    /\ inject.pc = "discovering"
    /\ inject' = ResolvePayload(IF ws = "None" THEN inject
                                ELSE [inject EXCEPT !.ws = <<ws>>])
    /\ UNCHANGED <<running_profiles, semaphore, waiters, tasks, ready,
                   response, engine, discovery>>

\* _inject_into_all_pages returns its stats or raises
EngineOutcomes == {"stats", "raises"}

\* app.py:254-261  the worker thread is done and the handler answers
InjectReturns(result) ==
    /\ inject.pc = "injecting"
    /\ inject' = IF result = "raises"
                 THEN Responded(inject, FALSE, "Inject failed")
                 ELSE Responded(inject, TRUE, "stats")
    /\ UNCHANGED <<running_profiles, semaphore, waiters, tasks, ready,
                   response, engine, discovery>>

\* The launch scheduler of one profile together with /inject.  While the
\* handler of /inject is inside a blocking call, the event loop runs
\* nothing else; the worker threads go on.
InjectNext ==
    \/ \E p \in OneProfile : LoopFree /\ start_profile_endpoint(p)
    \/ \E t \in TaskIds : LoopFree /\ TaskBegin(t)
    \/ \E t \in TaskIds : LoopFree /\ TaskWoken(t)
    \/ \E t \in TaskIds : ThreadReturns(t)
    \/ \E t \in TaskIds : \E resp \in GpmOutcomes : \E ws \in DiscoveryResults(resp) :
           LoopFree /\ TaskFinish(t, resp, ws)
    \/ \E p \in OneProfile : \E script_url, inline_js \in ScriptInputs :
           \E file \in FilesFor(script_url, inline_js) :
               inject_endpoint(p, script_url, inline_js, file)
    \/ \E ws \in WsInputs : InjectDiscovered(ws)
    \/ \E result \in EngineOutcomes : InjectReturns(result)

InjectSpec == Init /\ [][InjectNext]_vars

-----------------------------------------------------------------------------
(* _inject_into_all_pages, app.py:127-175.  The browser is given by the     *)
(* number of pages of each of its contexts; what add_script_tag and         *)
(* evaluate do on a page is decided when the page is visited.               *)

\* Bounds: contexts of the browser, pages of one context.
MaxContexts == 2
MaxPages == 2

RECURSIVE SeqsUpTo(_, _)
\* the sequences over S of length at most n
SeqsUpTo(S, n) ==
    IF n = 0 THEN {<<>>}
    ELSE LET shorter == SeqsUpTo(S, n - 1)
         IN  shorter \cup {Append(q, x) : q \in shorter, x \in S}

\* browser.contexts with len(ctx.pages) of each context
Layouts == SeqsUpTo(0..MaxPages, MaxContexts)

\* app.py:132
NoStats == [contexts |-> 0, pages |-> 0, injected_url |-> 0, injected_inline |-> 0]

\* app.py:156-162  the external script: counted when add_script_tag(url=)
\* does not raise
AttachUrl(stats, script_url, url_ok) ==
    IF script_url /\ url_ok
    THEN [stats EXCEPT !.injected_url = @ + 1]
    ELSE stats

\* Mutant of InjectInline: no page.evaluate after a failed add_script_tag.
InjectInlineNoEvaluate(stats, inline_js, tag_ok, eval_ok) ==
    IF inline_js /\ tag_ok
    THEN [stats EXCEPT !.injected_inline = @ + 1]
    ELSE stats

\* app.py:163-174  the inline script: add_script_tag(content=), and
\* page.evaluate when that raises
InjectInline(stats, inline_js, tag_ok, eval_ok) ==
    IF ~inline_js THEN stats
    ELSE IF tag_ok THEN [stats EXCEPT !.injected_inline = @ + 1]
    ELSE IF eval_ok THEN [stats EXCEPT !.injected_inline = @ + 1]
    ELSE stats

\* app.py:139-147  connect, count the contexts, create one if there is none.
\* contexts is the list the loop of app.py:149 runs over; the context made
\* by new_context has no page.  seen, url_pages and inline_pages record what
\* happened in the browser: the pages visited and on how many of them the
\* external and the inline script got in.
EngineConnect(layout, script_url, inline_js, connects, creates) ==
    /\ engine.pc \in {"idle", "done", "raised"}
    /\ engine' =
         IF ~connects \/ (layout = <<>> /\ ~creates)
         THEN [pc |-> "raised"]
         ELSE [pc |-> "context", layout |-> layout,
               script_url |-> script_url, inline_js |-> inline_js,
               contexts |-> IF layout = <<>> THEN <<0>> ELSE layout,
               new_contexts |-> IF layout = <<>> THEN 1 ELSE 0,
               new_pages |-> 0,
               ci |-> 1, pages |-> 0, pi |-> 0,
               stats |-> [NoStats EXCEPT !.contexts = Len(layout)],
               seen |-> {}, url_pages |-> 0, inline_pages |-> 0]
    /\ UNCHANGED <<running_profiles, semaphore, waiters, tasks, ready,
                   response, inject, discovery>>

\* app.py:149-152, 175  the next context and its pages (one is created if it
\* has none), or the return of stats after the last context
EngineContext(creates) ==
    /\ engine.pc = "context"
    /\ engine' =
         IF engine.ci > Len(engine.contexts)
         THEN [engine EXCEPT !.pc = "done"]
         ELSE IF engine.contexts[engine.ci] = 0
         THEN IF creates
              THEN [engine EXCEPT !.pc = "page", !.pages = 1, !.pi = 1,
                                  !.new_pages = @ + 1]
              ELSE [pc |-> "raised"]
         ELSE [engine EXCEPT !.pc = "page", !.pi = 1,
                             !.pages = engine.contexts[engine.ci]]
    /\ UNCHANGED <<running_profiles, semaphore, waiters, tasks, ready,
                   response, inject, discovery>>

\* app.py:153-174  one page
EnginePage(url_ok, tag_ok, eval_ok) ==
    /\ engine.pc = "page"
    /\ LET counted == [engine.stats EXCEPT !.pages = @ + 1]
           after == InjectInline(AttachUrl(counted, engine.script_url, url_ok),
                                 engine.inline_js, tag_ok, eval_ok)
           last == engine.pi = engine.pages
       IN  engine' =
             [engine EXCEPT
                !.stats = after,
                !.seen = @ \cup {<<engine.ci, engine.pi>>},
                !.url_pages = IF engine.script_url /\ url_ok THEN @ + 1 ELSE @,
                !.inline_pages =
                    IF engine.inline_js /\ (tag_ok \/ eval_ok) THEN @ + 1 ELSE @,
                !.pi = IF last THEN 0 ELSE @ + 1,
                !.ci = IF last THEN @ + 1 ELSE @,
                !.pc = IF last THEN "context" ELSE "page"]
    /\ UNCHANGED <<running_profiles, semaphore, waiters, tasks, ready,
                   response, inject, discovery>>

EngineNext ==
    \/ \E layout \in Layouts : \E script_url, inline_js, connects, creates \in BOOLEAN :
           EngineConnect(layout, script_url, inline_js, connects, creates)
    \/ \E creates \in BOOLEAN : EngineContext(creates)
    \/ \E url_ok, tag_ok, eval_ok \in BOOLEAN : EnginePage(url_ok, tag_ok, eval_ok)

EngineSpec == Init /\ [][EngineNext]_vars

-----------------------------------------------------------------------------
(* _get_ws_from_port, app.py:60-79.  Time is counted in ticks of a quarter  *)
(* of a second from the call; a request takes at least one tick.            *)

\* app.py:60  timeout_s = 6.0 seconds
timeout_s == 24

\* app.py:78  time.sleep(0.25)
SLEEP == 1

\* Bound: ticks a request takes before it returns or raises.
MaxLatency == 2

Latencies == 1..MaxLatency

\* What GET /json/version can do: raise (no connection, timeout, a body
\* that is not JSON), answer with an error status, answer JSON without
\* webSocketDebuggerUrl, or answer with the URL.
VersionOutcomes == {"raises", "not ok", "no field", "ws://version"}

\* The arrays GET /json can return: "-" is an element without
\* webSocketDebuggerUrl, any other element is one with that URL.
UrlArrays == {<<"ws://a">>, <<"-", "ws://a", "ws://b">>}
Arrays == {<<>>, <<"-">>} \cup UrlArrays

ListOf(arr) == [kind |-> "list", arr |-> arr]

\* What GET /json can do: raise, answer with an error status, answer JSON
\* that is not a list, or answer an array.
ListOutcomes ==
    {[kind |-> k, arr |-> <<>>] : k \in {"raises", "not ok", "not list"}}
    \cup {ListOf(arr) : arr \in Arrays}

\* The debugging target: what each of its endpoints may do at a query.
AnyTarget == [version |-> VersionOutcomes, list |-> ListOutcomes]

\* A target whose version endpoint never yields a URL and whose list
\* endpoint answers arr at every query.
ListOnlyTarget(arr) ==
    [version |-> {"raises", "not ok", "no field"}, list |-> {ListOf(arr)}]

Targets == {AnyTarget} \cup {ListOnlyTarget(arr) : arr \in UrlArrays}

\* app.py:74-76  the URL of the first element that has one, else None
RECURSIVE FirstUrl(_)
FirstUrl(arr) ==
    IF arr = <<>> THEN "None"
    ELSE IF Head(arr) # "-" THEN Head(arr)
    ELSE FirstUrl(Tail(arr))

\* Mutant of BeforeDeadline: the loop also runs at the deadline.
NotAfterDeadline(now, deadline) == now <= deadline

\* app.py:63  time.time() < deadline
BeforeDeadline(now, deadline) == now < deadline

\* app.py:61-62
DiscoveryCall(target) ==
    /\ discovery.pc \in {"idle", "returned"}
    /\ discovery' = [pc |-> "while", target |-> target, now |-> 0,
                     deadline |-> 0 + timeout_s, polls |-> 0,
                     result |-> "None"]
    /\ UNCHANGED <<running_profiles, semaphore, waiters, tasks, ready,
                   response, inject, engine>>

\* app.py:63, 79  the test of the loop: another iteration, or return None
DiscoveryWhile ==
    /\ discovery.pc = "while"
    /\ discovery' =
         IF BeforeDeadline(discovery.now, discovery.deadline)
         THEN [discovery EXCEPT !.pc = "version", !.polls = @ + 1]
         ELSE [discovery EXCEPT !.pc = "returned", !.result = "None"]
    /\ UNCHANGED <<running_profiles, semaphore, waiters, tasks, ready,
                   response, inject, engine>>

\* app.py:65-69  GET /json/version
DiscoveryVersion(out, latency) ==
    /\ discovery.pc = "version"
    /\ out \in discovery.target.version
    /\ discovery' =
         IF out = "raises"
         THEN [discovery EXCEPT !.pc = "except", !.now = @ + latency]
         ELSE IF out \in {"not ok", "no field"}
         THEN [discovery EXCEPT !.pc = "list", !.now = @ + latency]
         ELSE [discovery EXCEPT !.pc = "returned", !.now = @ + latency,
                                !.result = out]
    /\ UNCHANGED <<running_profiles, semaphore, waiters, tasks, ready,
                   response, inject, engine>>

\* app.py:70-76  GET /json
DiscoveryList(out, latency) ==
    /\ discovery.pc = "list"
    /\ out \in discovery.target.list
    /\ discovery' =
         IF out.kind = "raises"
         THEN [discovery EXCEPT !.pc = "except", !.now = @ + latency]
         ELSE IF out.kind = "list" /\ FirstUrl(out.arr) # "None"
         THEN [discovery EXCEPT !.pc = "returned", !.now = @ + latency,
                                !.result = FirstUrl(out.arr)]
         ELSE [discovery EXCEPT !.pc = "while", !.now = @ + latency]
    /\ UNCHANGED <<running_profiles, semaphore, waiters, tasks, ready,
                   response, inject, engine>>

\* app.py:77-78  except Exception: time.sleep(0.25)
DiscoverySleep ==
    /\ discovery.pc = "except"
    /\ discovery' = [discovery EXCEPT !.pc = "while", !.now = @ + SLEEP]
    /\ UNCHANGED <<running_profiles, semaphore, waiters, tasks, ready,
                   response, inject, engine>>

\* A step of the call in progress.
DiscoveryStep ==
    \/ DiscoveryWhile
    \/ \E out \in VersionOutcomes : \E latency \in Latencies :
           DiscoveryVersion(out, latency)
    \/ \E out \in ListOutcomes : \E latency \in Latencies :
           DiscoveryList(out, latency)
    \/ DiscoverySleep

DiscoveryNext ==
    \/ \E target \in Targets : DiscoveryCall(target)
    \/ DiscoveryWhile
    \/ \E out \in VersionOutcomes : \E latency \in Latencies :
           DiscoveryVersion(out, latency)
    \/ \E out \in ListOutcomes : \E latency \in Latencies :
           DiscoveryList(out, latency)
    \/ DiscoverySleep

\* The thread that runs _get_ws_from_port keeps running, and every request
\* returns or raises (timeout=2), as does time.sleep.
DiscoverySpec == Init /\ [][DiscoveryNext]_vars /\ WF_vars(DiscoveryStep)

-----------------------------------------------------------------------------
(* Properties *)

Created == {t \in TaskIds : tasks[t].pc = "created"}
Running == {t \in TaskIds : tasks[t].pc = "running"}
Waiting == {t \in TaskIds : tasks[t].pc = "waiting"}
Done == {t \in TaskIds : tasks[t].pc = "done"}

\* C1: at most MAX_CONCURRENT launch tasks hold the admission gate (have
\* acquired the semaphore and not yet finished start_profile_sync), whatever
\* the number and interleaving of start requests.
C1_AtMostMaxConcurrent == Cardinality(InGate) <= MAX_CONCURRENT

\* The gate is full and a further launch is waiting for a slot.
C1_Witness ==
    /\ Cardinality(InGate) = MAX_CONCURRENT
    /\ Waiting # {}

\* C2: a start request for a profile whose record exists with a status other
\* than error is answered ok=false, creates no task and changes no record.
C2_RejectLeavesStateUnchanged ==
    [][\A p \in Profiles :
          ( /\ start_profile_endpoint(p)
            /\ p \in DOMAIN running_profiles
            /\ running_profiles[p].status # "error" )
          => /\ response' = [ok |-> FALSE, profile_id |-> p]
             /\ tasks' = tasks
             /\ ready' = ready
             /\ running_profiles' = running_profiles
             /\ waiters' = waiters
             /\ semaphore' = semaphore]_vars

\* A request was rejected for a profile whose record is not in error.
C2_Witness ==
    /\ response.ok = FALSE
    /\ response.profile_id \in DOMAIN running_profiles
    /\ running_profiles[response.profile_id].status # "error"

\* C3: from the acceptance of a start request until its task acquires a
\* slot, the registry holds a record of that profile with status queued.
C3_QueuedUntilSlotAcquired ==
    \A t \in Created \cup Waiting :
        /\ tasks[t].pid \in DOMAIN running_profiles
        /\ running_profiles[tasks[t].pid].status = "queued"

\* C4: while the blocking work of a launch runs (the task holds a slot), a
\* status query reads status starting for its profile.
C4_StartingWhileLaunchRuns ==
    \A t \in Running :
        /\ tasks[t].pid \in DOMAIN running_profiles
        /\ running_profiles[tasks[t].pid].status = "starting"

\* C5: once a record has status started or started_no_debug, its status
\* never changes again.
C5_StartedIsFinal ==
    [][\A p \in DOMAIN running_profiles :
          running_profiles[p].status \in {"started", STARTED_NO_DEBUG}
          => running_profiles'[p].status = running_profiles[p].status]_vars

\* C7: the free slots and the tasks inside the gate always add up to
\* MAX_CONCURRENT: every task that acquired a slot gives it back when its
\* launch ends, whatever the outcome, and with no task inside the gate all
\* slots are free.
C7_SlotsAreGivenBack ==
    /\ semaphore + Cardinality(InGate) = MAX_CONCURRENT
    /\ InGate = {} => semaphore = MAX_CONCURRENT

\* A launch ended in error, another ended started, none is inside the gate
\* any more, and all slots are free.
C7_Witness ==
    /\ InGate = {}
    /\ semaphore = MAX_CONCURRENT
    /\ Cardinality(Done) >= 2
    /\ \E p \in DOMAIN running_profiles : running_profiles[p].status = "error"
    /\ \E p \in DOMAIN running_profiles : running_profiles[p].status = "started"

\* The record of task t's profile after the step
RecordAfter(t) == running_profiles'[tasks[t].pid]

\* C6: with the event loop running and every call of the worker thread
\* returning or raising, every accepted launch is carried to its end, and the
\* end of a launch leaves the record of its profile in a terminal status; a
\* failed launch leaves status error with a message.
C6_EveryLaunchEndsTerminal ==
    /\ []<>(\A t \in TaskIds : tasks[t].pc = "done")
    /\ [][\A t \in TaskIds : \A resp \in GpmOutcomes :
             \A ws \in DiscoveryResults(resp) :
                 TaskFinish(t, resp, ws)
                 => /\ RecordAfter(t).status \in Terminal
                    /\ resp.raises => RecordAfter(t).status = "error"
                    /\ RecordAfter(t).status = "error"
                           => "error" \in DOMAIN RecordAfter(t)]_vars

\* More launches than slots were accepted, all of them ended, and one of
\* them left an error record with its message.
C6_Witness ==
    /\ Len(tasks) > MAX_CONCURRENT
    /\ \A t \in TaskIds : tasks[t].pc = "done"
    /\ \E p \in DOMAIN running_profiles :
           /\ running_profiles[p].status = "error"
           /\ "error" \in DOMAIN running_profiles[p]

\* C8: a launch whose response carries a data object without
\* remote_debugging_address (the empty object included) ends with status
\* started_no_debug and the data kept as raw_response.
C8_NoAddressIsStartedNoDebug ==
    [][\A t \in TaskIds : \A resp \in GpmOutcomes :
          ( /\ TaskFinish(t, resp, "None")
            /\ ~resp.raises
            /\ resp.isdict
            /\ resp.data.kind = "object"
            /\ RDA \notin resp.data.keys )
          => /\ RecordAfter(t).status = STARTED_NO_DEBUG
             /\ "raw_response" \in DOMAIN RecordAfter(t)
             /\ RecordAfter(t).raw_response = resp.data]_vars

\* C9: a launch whose response carries remote_debugging_address "host:port"
\* ends with status started, debug_host and debug_port as parsed and
\* websocket as discovery returned it, URL or None.
C9_AddressIsStarted ==
    [][\A t \in TaskIds : \A resp \in GpmOutcomes :
          \A ws \in DiscoveryResults(resp) :
              ( /\ TaskFinish(t, resp, ws)
                /\ ~resp.raises
                /\ resp.isdict
                /\ resp.data.kind = "object"
                /\ HasDebugAddress(resp.data) )
              => /\ RecordAfter(t).status = "started"
                 /\ RecordAfter(t).debug_host = SplitHost(resp.data.rda)
                 /\ RecordAfter(t).debug_port = DebugPort(SplitPort(resp.data.rda))
                 /\ "websocket" \in DOMAIN RecordAfter(t)
                 /\ RecordAfter(t).websocket = ws]_vars

\* C10: a record has the key error exactly when its status is error.
C10_ErrorIffStatusError ==
    \A p \in DOMAIN running_profiles :
        ("error" \in DOMAIN running_profiles[p])
        <=> (running_profiles[p].status = "error")

\* The record carries the debug address of the browser.
HasDebugKeys(info) ==
    "debug_host" \in DOMAIN info \/ "debug_port" \in DOMAIN info

\* C11: a record carries debug_host and debug_port only when its status is
\* started or started (no debug info), a started record carries both, and
\* no record whose status is queued, starting or error carries either.
C11_DebugAddressOnlyWhenStarted ==
    \A p \in DOMAIN running_profiles :
        LET info == running_profiles[p]
        IN  /\ HasDebugKeys(info)
               => info.status \in {"started", STARTED_NO_DEBUG}
            /\ info.status = "started"
               => {"debug_host", "debug_port"} \subseteq DOMAIN info
            /\ info.status \in {"queued", "starting", "error"}
               => ~HasDebugKeys(info)

\* The launch tasks of profile_id that are created and not finished.
Unfinished(profile_id) ==
    {t \in TaskIds : tasks[t].pid = profile_id /\ tasks[t].pc # "done"}

\* C20: at most one launch task per profile_id is waiting for the gate or
\* executing: a start request for a profile whose earlier accepted launch
\* has not finished is never accepted.
C20_OneLaunchPerProfile ==
    \A p \in Profiles : Cardinality(Unfinished(p)) <= 1

\* C12: every inject request ends in a JSON outcome, ok=true with stats or
\* ok=false with a message, and never in an exception that leaves the
\* handler, whatever record the launch scheduler left in the registry.
C12_InjectAlwaysAnswers ==
    inject.pc = "done" => inject.kind = "json"

\* A step of inject_endpoint: the handler takes a new request.
InjectArrives == inject.pc \in {"idle", "done"} /\ inject' # inject

\* C15: an inject request for a profile that has no record, or whose record
\* has no debug_host or no debug_port, is answered ok=false at once: no
\* discovery query, no connection, and the registry as it was.
C15_NoAddressIsRejectedAtOnce ==
    [][( /\ InjectArrives
         /\ \/ inject'.profile_id \notin DOMAIN running_profiles
            \/ "debug_host" \notin DOMAIN running_profiles[inject'.profile_id]
            \/ "debug_port" \notin DOMAIN running_profiles[inject'.profile_id] )
       => /\ inject'.pc = "done"
          /\ inject'.kind = "json"
          /\ inject'.ok = FALSE
          /\ ~inject'.queried
          /\ ~inject'.connected
          /\ running_profiles' = running_profiles]_vars

\* An inject request was rejected for a profile whose launch is running:
\* its record has no debug address yet.
C15_Witness ==
    /\ inject.pc = "done"
    /\ inject.kind = "json"
    /\ inject.message = "not started"
    /\ inject.profile_id \in DOMAIN running_profiles
    /\ ~HasDebugKeys(running_profiles[inject.profile_id])

\* C16: an inject request with script_url and inline_js empty and no file
\* script.js is answered with the no-payload outcome before any query or
\* connection to the debugging target, for every record that has a debug
\* address, with or without a stored websocket URL.
C16_NoPayloadBeforeAnyQuery ==
    [][\A p \in OneProfile : \A script_url, inline_js \in ScriptInputs :
          ( /\ inject_endpoint(p, script_url, inline_js, "absent")
            /\ Final(script_url) = <<>>
            /\ Final(inline_js) = <<>>
            /\ ~MissingDebugAddress(InfoOf(p))
            /\ InfoOf(p).debug_port.isint )
          => /\ inject'.pc = "done"
             /\ inject'.message = "no payload"
             /\ ~inject'.queried
             /\ ~inject'.connected]_vars

\* C17: a blocking network operation never runs on the event loop: while a
\* launch or an inject request is in such an operation, the event loop is
\* free to dispatch other requests.
C17_BlockingWorkOffLoop ==
    (Running # {} \/ inject.pc \in {"discovering", "injecting"}) => LoopFree

RECURSIVE SumSeq(_)
SumSeq(q) == IF q = <<>> THEN 0 ELSE Head(q) + SumSeq(Tail(q))

\* The pages of a browser of the given layout, as <<context, page>>.
PagesOf(layout) ==
    {cq \in (1..Len(layout)) \X (1..MaxPages) : cq[2] <= layout[cq[1]]}

\* C13: on a browser of N >= 1 contexts with M >= 1 pages each, the engine
\* returns contexts = N and pages = N * M whichever pages fail, has visited
\* every page, counts in injected_url the pages where the external script was
\* attached and in injected_inline the pages where the inline script got in
\* as an element or, after that failed, by evaluation: at most one per page.
C13_StatsCountPagesAndInjections ==
    ( /\ engine.pc = "done"
      /\ Len(engine.layout) >= 1
      /\ \A c \in 1..Len(engine.layout) : engine.layout[c] >= 1 )
    => /\ engine.stats.contexts = Len(engine.layout)
       /\ engine.stats.pages = SumSeq(engine.layout)
       /\ \A M \in 1..MaxPages :
              (\A c \in 1..Len(engine.layout) : engine.layout[c] = M)
              => engine.stats.pages = Len(engine.layout) * M
       /\ engine.seen = PagesOf(engine.layout)
       /\ engine.stats.injected_url = engine.url_pages
       /\ engine.stats.injected_inline = engine.inline_pages
       /\ engine.stats.injected_inline <= engine.stats.pages

\* Two contexts of two pages each were injected with both scripts; on some
\* page the external script failed, and on some page the inline script got
\* in although not on all.
C13_Witness ==
    /\ engine.pc = "done"
    /\ engine.layout = <<2, 2>>
    /\ engine.script_url /\ engine.inline_js
    /\ engine.stats.pages = 4
    /\ engine.stats.injected_url \in 1..3
    /\ engine.stats.injected_inline \in 1..3

\* C19: on a browser without contexts the engine creates exactly one, in a
\* context without pages exactly one page, and the stats count every context
\* and page visited, the created ones too: no contexts gives contexts = 1
\* and pages = 1.
C19_CreatedContextsAreCounted ==
    engine.pc = "done"
    => /\ engine.layout = <<>> => engine.new_contexts = 1
       /\ engine.new_pages = Cardinality({c \in 1..Len(engine.contexts) :
                                             engine.contexts[c] = 0})
       /\ engine.stats.contexts = Len(engine.contexts)
       /\ engine.stats.pages = Cardinality(engine.seen)
       /\ engine.layout = <<>>
          => engine.stats.contexts = 1 /\ engine.stats.pages = 1

\* A call of _get_ws_from_port is in progress.
Polling == discovery.pc \in {"while", "version", "list", "except"}

\* C14: discovery terminates whatever the debugging target does: it returns a
\* URL or None, starts no poll iteration at or after the deadline, and
\* returns None only when the deadline has been reached.
C14_DiscoveryTerminates ==
    /\ Polling ~> (discovery.pc = "returned")
    /\ [](discovery.pc = "version" => discovery.now < discovery.deadline)
    /\ [](discovery.pc = "returned"
          => /\ discovery.result \in {"None", "ws://version", "ws://a", "ws://b"}
             /\ discovery.result = "None"
                => discovery.now >= discovery.deadline)

\* Discovery has returned None after several poll iterations.
C14_Witness ==
    /\ discovery.pc = "returned"
    /\ discovery.result = "None"
    /\ discovery.polls >= 2
    /\ discovery.now >= discovery.deadline

\* C18: when the list endpoint answers, at every query, an array that has
\* an element with a websocket URL, discovery returns the URL of the first
\* such element, even if the version endpoint never yields a URL: it answers
\* without the field, answers with an error status, or its query fails.
C18_ListEndpointSuffices ==
    \A arr \in UrlArrays :
        (discovery.pc = "returned" /\ discovery.target = ListOnlyTarget(arr))
        => discovery.result = FirstUrl(arr)

====
